---- MODULE Spec2Model ----
(***************************************************************************)
(* Camera control and frame loop of digma: the web host (web/src/App.tsx), *)
(* the wasm camera it drives through app.tick, and the vertex shader       *)
(* (crates/renderer_wgpu/src/shader.wgsl).                                 *)
(*                                                                         *)
(* Numbers.  A JavaScript / shader number is modelled as an exact real of  *)
(* the form  SUM_i (n_i / d_i) * E^(e_i)  with E = exp(0.0015), the base   *)
(* of the wheel handler's Math.exp(-deltaY * 0.0015) for integer deltaY.   *)
(* E is transcendental, so a value has exactly one such representation     *)
(* with distinct exponents and non-zero reduced coefficients: a finite set *)
(* of terms [e, n, d].  Sums, differences and products/quotients by a      *)
(* one-term value are exact on this representation.  Only decimal          *)
(* formatting (toFixed) and the comparison with the zoom maximum need a    *)
(* numeric value; they use a fixed-point evaluation (Approx).              *)
(***************************************************************************)
EXTENDS Integers, Sequences, FiniteSets, TLC

----------------------------------------------------------------------------
(* Exact arithmetic *)

Abs(i) == IF i < 0 THEN -i ELSE i

RECURSIVE Gcd(_, _)
Gcd(a, b) == IF b = 0 THEN a ELSE Gcd(b, a % b)

\* the term (n/d) * E^e, reduced; d > 0
Term(e, n, d) ==
  LET g == Gcd(Abs(n), Abs(d))
      s == IF d < 0 THEN -1 ELSE 1
  IN [e |-> e, n |-> (s * n) \div g, d |-> (s * d) \div g]

Zero == {}
Int2Num(i) == IF i = 0 THEN Zero ELSE {Term(0, i, 1)}
Rat(n, d) == IF n = 0 THEN Zero ELSE {Term(0, n, d)}

\* coefficient of E^k in a, as <<n, d>>
Coef(a, k) ==
  IF \E t \in a : t.e = k
  THEN LET t == CHOOSE t \in a : t.e = k IN <<t.n, t.d>>
  ELSE <<0, 1>>

Add(a, b) ==
  LET exps == {t.e : t \in a \cup b}
      sum(k) == LET p == Coef(a, k)
                    q == Coef(b, k)
                IN <<p[1] * q[2] + q[1] * p[2], p[2] * q[2]>>
  IN {Term(k, sum(k)[1], sum(k)[2]) : k \in {j \in exps : sum(j)[1] # 0}}

Neg(a) == {[e |-> t.e, n |-> -t.n, d |-> t.d] : t \in a}
Sub(a, b) == Add(a, Neg(b))

IsMono(a) == Cardinality(a) = 1
MonoOf(a) == CHOOSE t \in a : TRUE

\* a * m and a / m for a one-term m
MulMono(a, m) ==
  LET u == MonoOf(m)
  IN {Term(t.e + u.e, t.n * u.n, t.d * u.d) : t \in a}
DivMono(a, m) ==
  LET u == MonoOf(m)
  IN {Term(t.e - u.e, t.n * u.d, t.d * u.n) : t \in a}

\* a * b where b is zero or one term (every product the program forms)
Mul(a, b) == IF b = Zero THEN Zero ELSE MulMono(a, b)

\* sign of a value with at most one term
IsPositive(a) == IsMono(a) /\ MonoOf(a).n > 0

----------------------------------------------------------------------------
(* Numeric evaluation, fixed point with FixScale units per 1 *)

FixScale == 10000
ExpTerms == 6

\* exp(0.0015 * k) * FixScale by Horner's scheme on the Taylor series:
\* 0.0015 * k = 3k / 2000
RECURSIVE ExpHorner(_, _)
ExpHorner(k, i) ==
  IF i > ExpTerms THEN FixScale
  ELSE FixScale + (3 * k * ExpHorner(k, i + 1)) \div (2000 * i)
ExpFix(k) == IF k = 0 THEN FixScale ELSE ExpHorner(k, 1)

RECURSIVE SumFix(_)
SumFix(a) ==
  IF a = {} THEN 0
  ELSE LET t == CHOOSE t \in a : TRUE
       IN (t.n * ExpFix(t.e)) \div t.d + SumFix(a \ {t})
Approx(a) == SumFix(a)

----------------------------------------------------------------------------
(* Camera (wasm side of app.tick): spec.md 4.1 *)

ZoomMax == 4

Origin == [x |-> Zero, y |-> Zero]
One == Int2Num(1)

\* Camera at session start: pan = origin, zoom = 1.0
DefaultView == [pan |-> Origin, zoom |-> One]

\* pixel point (integers) as numbers
PointNum(p) == [x |-> Int2Num(p.x), y |-> Int2Num(p.y)]

\* world_pivot = pan + pivot_px / zoom: the world point under a screen pixel
WorldAt(view, px) ==
  [x |-> Add(view.pan.x, DivMono(PointNum(px).x, view.zoom)),
   y |-> Add(view.pan.y, DivMono(PointNum(px).y, view.zoom))]

\* pan is updated by delta_px / zoom
panByScreenDelta(view, delta_px) ==
  [view EXCEPT !.pan = WorldAt(view, delta_px)]

\* a zoom is accepted when the multiplier is > 0 and the resulting zoom is
\* positive and not above the maximum
\* mutant of ZoomAccepted: the upper limit on the resulting zoom is not checked
ZoomAcceptedNoMax(view, multiplier) ==
  /\ IsPositive(multiplier)
  /\ IsPositive(Mul(view.zoom, multiplier))

ZoomAccepted(view, multiplier) ==
  /\ IsPositive(multiplier)
  /\ IsPositive(Mul(view.zoom, multiplier))
  /\ Approx(Mul(view.zoom, multiplier)) <= ZoomMax * FixScale

\* zoom_new = zoom_old * multiplier; pan_new = world_pivot - pivot_px / zoom_new
zoomAtScreenPoint(view, pivot_px, multiplier) ==
  IF ~ZoomAccepted(view, multiplier) THEN view
  ELSE LET world_pivot == WorldAt(view, pivot_px)
           zoom_new == Mul(view.zoom, multiplier)
       IN [pan |-> [x |-> Sub(world_pivot.x, DivMono(PointNum(pivot_px).x, zoom_new)),
                    y |-> Sub(world_pivot.y, DivMono(PointNum(pivot_px).y, zoom_new))],
           zoom |-> zoom_new]

ApplyEvent(view, ev) ==
  IF ev.type = "camera_pan_by_screen_delta"
  THEN panByScreenDelta(view, ev.delta_px)
  ELSE zoomAtScreenPoint(view, ev.pivot_px, ev.zoom_multiplier)

\* events applied strictly in arrival order
RECURSIVE ApplyEvents(_, _)
ApplyEvents(view, events) ==
  IF events = << >> THEN view
  ELSE ApplyEvents(ApplyEvent(view, Head(events)), Tail(events))

----------------------------------------------------------------------------
(* Host side: web/src/App.tsx *)

\* mutant of MathExpWheel: the sign of deltaY is kept, Math.exp(deltaY * 0.0015)
MathExpWheelNoNegation(deltaY) == {Term(deltaY, 1, 1)}

\* Math.exp(-deltaY * 0.0015) for an integer deltaY: E^(-deltaY)
MathExpWheel(deltaY) == {Term(-deltaY, 1, 1)}

RECURSIVE Pow10(_)
Pow10(f) == IF f = 0 THEN 1 ELSE 10 * Pow10(f - 1)

\* Number.prototype.toFixed(f): sign, then the nearest multiple of 10^-f of the
\* magnitude (the larger one on a tie), as integer part and f fraction digits
toFixed(v, f) ==
  LET a == Approx(v)
      n == (Abs(a) * Pow10(f) + FixScale \div 2) \div FixScale
  IN [neg |-> a < 0, int |-> n \div Pow10(f), frac |-> n % Pow10(f)]

\* `pan=(${pan.x.toFixed(2)}, ${pan.y.toFixed(2)}), zoom=${zoom.toFixed(3)}`
CameraTextOf(view) ==
  [kind |-> "view",
   panx |-> toFixed(view.pan.x, 2),
   pany |-> toFixed(view.pan.y, 2),
   zoom |-> toFixed(view.zoom, 3)]

\* `tick error: ${String(err)}`
TickErrorText == [kind |-> "tick error"]
NoData == [kind |-> "(no data)"]

PanEvent(dx, dy) ==
  [type |-> "camera_pan_by_screen_delta", delta_px |-> [x |-> dx, y |-> dy]]
ZoomEvent(pivot, m) ==
  [type |-> "camera_zoom_at_screen_point", pivot_px |-> pivot, zoom_multiplier |-> m]

----------------------------------------------------------------------------
(* Bounds and inputs *)

MaxEvents == 2      \* input events appended over a run
MaxFailures == 1    \* ticks that throw over a run
HandleBound == 2    \* requestAnimationFrame handles are 1..HandleBound, wrapping;
                    \* tick invocations are counted modulo HandleBound

ClientPts == {[x |-> 1, y |-> 2], [x |-> 3, y |-> 1]}
WheelPts == {[x |-> 3, y |-> 2]}
WheelDeltas == {-100}    \* one notch up; WideDeltas has both signs and 0
Codes == {"Space", "KeyA"}
Buttons == {0, 2}
PointerIds == {1}   \* the mouse
\* canvasRef.getBoundingClientRect()
CanvasRect == [left |-> 1, top |-> 1]

VARIABLES
  spaceDown, isPanning, lastPt, batch,  \* App closure, lines 24-27
  ver, cameraText,                      \* signals, lines 29-30
  rafId, running, aborted,              \* onMount closure, lines 33-35
  capture,                              \* browser: pointers captured by the canvas
  pc,                                   \* position of the async bootstrap, lines 131-160
  camera,                               \* the wasm App's camera
  rafPending, rafNext,                  \* browser: pending frame callbacks, last handle
  lastFrame, tickSeq,                   \* history: last frame callback run, tick counter
  sinceClear, sinceTick,                \* history: handler appends since clear / tick
  appended, failures,                   \* history: counters for the bounds
  camOp                                 \* the operation applied last with its inputs, or the
                                        \* history of the drag in progress (parts taken alone)

vars == <<spaceDown, isPanning, lastPt, batch, ver, cameraText, rafId, running,
          aborted, pc, camera, rafPending, rafNext, lastFrame, tickSeq,
          sinceClear, sinceTick, appended, failures, camOp, capture>>

gesture == <<spaceDown, isPanning, lastPt, capture>>
loop == <<rafId, running, rafPending, rafNext, pc, ver>>
tickState == <<camera, cameraText, lastFrame, tickSeq, failures>>
batchState == <<batch, sinceClear, sinceTick, appended>>

\* a nullable value: [null |-> TRUE] or the value with null |-> FALSE
NullPt == [null |-> TRUE, x |-> 0, y |-> 0]
SomePt(x, y) == [null |-> FALSE, x |-> x, y |-> y]
NullBatch == [null |-> TRUE, events |-> << >>]
SomeBatch(events) == [null |-> FALSE, events |-> events]

NoCamOp == [op |-> "none", before |-> DefaultView, px |-> [x |-> 0, y |-> 0],
            multiplier |-> One, steps |-> 0]

Init ==
  /\ spaceDown = FALSE
  /\ isPanning = FALSE
  /\ lastPt = NullPt
  /\ capture = {}
  /\ batch = NullBatch
  /\ ver = "(loading)"
  /\ cameraText = NoData
  /\ rafId = 0
  /\ running = TRUE
  /\ aborted = FALSE
  /\ pc = "import"
  /\ camera = DefaultView
  /\ rafPending = {}
  /\ rafNext = 0
  /\ lastFrame = [kind |-> "none", arg |-> << >>]
  /\ tickSeq = 0
  /\ sinceClear = << >>
  /\ sinceTick = << >>
  /\ appended = 0
  /\ failures = 0
  /\ camOp = NoCamOp

----------------------------------------------------------------------------
(* Input handlers, registered with { signal: abortController.signal } *)

\* mutants of Push: unshift (newest first); overwrite (keep only the newest)
PushFront(events, ev) == <<ev>> \o events
PushOverwrite(events, ev) == <<ev>>

\* Array.prototype.push
Push(events, ev) == Append(events, ev)

KeyDown ==
  /\ ~aborted
  /\ \E code \in Codes :
       spaceDown' = IF code = "Space" THEN TRUE ELSE spaceDown
  /\ UNCHANGED <<isPanning, lastPt, capture, aborted>>
  /\ UNCHANGED <<loop, tickState, batchState>>
  /\ UNCHANGED camOp

\* mutant of KeyUpOn: releasing Space only clears spaceDown
KeyUpOnKeepsPanning(code) ==
  /\ ~aborted
  /\ spaceDown' = IF code = "Space" THEN FALSE ELSE spaceDown
  /\ UNCHANGED <<isPanning, lastPt, capture>>
  /\ UNCHANGED <<aborted, loop, tickState, batchState>>

\* the keyup handler for one event
KeyUpOn(code) ==
  /\ ~aborted
  /\ IF code = "Space"
     THEN /\ spaceDown' = FALSE
          /\ isPanning' = FALSE
          /\ lastPt' = NullPt
          /\ UNCHANGED capture
     ELSE UNCHANGED gesture
  /\ UNCHANGED <<aborted, loop, tickState, batchState>>

KeyUp ==
  /\ \E code \in Codes : KeyUpOn(code)
  /\ UNCHANGED camOp

\* the pointerdown handler for one event
PointerDownOn(button, p, pointerId) ==
  /\ ~aborted
  /\ IF button = 0 /\ spaceDown
     THEN /\ isPanning' = TRUE
          /\ lastPt' = SomePt(p.x, p.y)
          /\ capture' = capture \cup {pointerId}
     ELSE UNCHANGED <<isPanning, lastPt, capture>>
  /\ UNCHANGED <<spaceDown, aborted, loop, tickState, batchState>>

PointerDown ==
  /\ \E button \in Buttons, p \in ClientPts, pointerId \in PointerIds :
       PointerDownOn(button, p, pointerId)
  /\ UNCHANGED camOp

\* mutant of PointerMoveOn: lastPt follows the pointer whether or not the
\* batch exists
PointerMoveOnAlwaysTracks(p) ==
  /\ ~aborted
  /\ IF isPanning /\ ~lastPt.null
     THEN /\ lastPt' = SomePt(p.x, p.y)
          /\ IF batch.null THEN UNCHANGED batchState
             ELSE LET dx == p.x - lastPt.x
                      dy == p.y - lastPt.y
                  IN /\ appended < MaxEvents
                     /\ batch' = SomeBatch(Push(batch.events, PanEvent(dx, dy)))
                     /\ sinceClear' = Append(sinceClear, PanEvent(dx, dy))
                     /\ sinceTick' = Append(sinceTick, PanEvent(dx, dy))
                     /\ appended' = appended + 1
     ELSE UNCHANGED <<lastPt, batchState>>
  /\ UNCHANGED <<spaceDown, isPanning, capture, aborted, loop, tickState>>

\* the pointermove handler for one event
PointerMoveOn(p) ==
  /\ ~aborted
  /\ IF isPanning /\ ~lastPt.null /\ ~batch.null
     THEN LET dx == p.x - lastPt.x
              dy == p.y - lastPt.y
          IN /\ appended < MaxEvents
             /\ batch' = SomeBatch(Push(batch.events, PanEvent(dx, dy)))
             /\ lastPt' = SomePt(p.x, p.y)
             /\ sinceClear' = Append(sinceClear, PanEvent(dx, dy))
             /\ sinceTick' = Append(sinceTick, PanEvent(dx, dy))
             /\ appended' = appended + 1
     ELSE UNCHANGED <<lastPt, batchState>>
  /\ UNCHANGED <<spaceDown, isPanning, capture, aborted, loop, tickState>>

PointerMove ==
  /\ \E p \in ClientPts : PointerMoveOn(p)
  /\ UNCHANGED camOp

\* the pointerup handler for one event, and the user agent's release of the
\* pointer's capture right after a pointerup has been dispatched
PointerUpOn(pointerId) ==
  /\ ~aborted
  /\ IF isPanning
     THEN /\ isPanning' = FALSE
          /\ lastPt' = NullPt
          /\ capture' = capture \ {pointerId}
     ELSE /\ UNCHANGED <<isPanning, lastPt>>
          /\ capture' = capture \ {pointerId}
  /\ UNCHANGED <<spaceDown, aborted, loop, tickState, batchState>>

PointerUp ==
  /\ \E pointerId \in PointerIds : PointerUpOn(pointerId)
  /\ UNCHANGED camOp

\* the pointercancel handler for one event, and the user agent's release of
\* the pointer's capture right after a pointercancel has been dispatched
PointerCancelOn(pointerId) ==
  /\ ~aborted
  /\ IF isPanning
     THEN /\ isPanning' = FALSE
          /\ lastPt' = NullPt
          /\ capture' = capture \ {pointerId}
     ELSE /\ UNCHANGED <<isPanning, lastPt>>
          /\ capture' = capture \ {pointerId}
  /\ UNCHANGED <<spaceDown, aborted, loop, tickState, batchState>>

PointerCancel ==
  /\ \E pointerId \in PointerIds : PointerCancelOn(pointerId)
  /\ UNCHANGED camOp

\* the wheel handler for one event at client point p with the given deltaY
WheelOn(p, deltaY) ==
  /\ ~aborted
  /\ IF batch.null THEN UNCHANGED batchState
     ELSE LET pivot == [x |-> p.x - CanvasRect.left, y |-> p.y - CanvasRect.top]
              zoomMultiplier == MathExpWheel(deltaY)
          IN /\ appended < MaxEvents
             /\ batch' = SomeBatch(Push(batch.events, ZoomEvent(pivot, zoomMultiplier)))
             /\ sinceClear' = Append(sinceClear, ZoomEvent(pivot, zoomMultiplier))
             /\ sinceTick' = Append(sinceTick, ZoomEvent(pivot, zoomMultiplier))
             /\ appended' = appended + 1
  /\ UNCHANGED <<gesture, aborted, loop, tickState>>

Wheel ==
  /\ \E p \in WheelPts, deltaY \in WheelDeltas : WheelOn(p, deltaY)
  /\ UNCHANGED camOp

----------------------------------------------------------------------------
(* Bootstrap, frame loop and cleanup *)

\* window.requestAnimationFrame: the next handle, a non-zero integer
NextHandle(last) == (last % HandleBound) + 1

\* await import("./wasm/app_wasm/app_wasm") resolves
ImportResolved ==
  /\ pc = "import"
  /\ pc' = "init"
  /\ UNCHANGED <<gesture, aborted, rafId, running, rafPending, rafNext, ver,
                 tickState, batchState>>
  /\ UNCHANGED camOp

\* await m.default() resolves; setVer(m.version()); App.new is called
WasmInitResolved ==
  /\ pc = "init"
  /\ ver' = "version"
  /\ pc' = "new"
  /\ UNCHANGED <<gesture, aborted, rafId, running, rafPending, rafNext,
                 tickState, batchState>>
  /\ UNCHANGED camOp

\* await m.App.new(canvasRef) resolves; batch = { events: [] };
\* rafId = requestAnimationFrame(frame)
AppNewResolved ==
  /\ pc = "new"
  /\ camera' = DefaultView
  /\ batch' = SomeBatch(<< >>)
  /\ rafNext' = NextHandle(rafNext)
  /\ rafId' = rafNext'
  /\ rafPending' = rafPending \cup {rafNext'}
  /\ pc' = "done"
  /\ UNCHANGED <<gesture, aborted, running, ver, cameraText, lastFrame, tickSeq,
                 failures, sinceClear, sinceTick, appended>>
  /\ UNCHANGED camOp

\* one of the awaited promises rejects: the async function ends there
BootstrapRejected ==
  /\ pc \in {"import", "init", "new"}
  /\ pc' = "rejected"
  /\ UNCHANGED <<gesture, aborted, rafId, running, rafPending, rafNext, ver,
                 tickState, batchState>>
  /\ UNCHANGED camOp

\* app.tick(batch): the camera after the batch's events, in order, and whether
\* the render that follows them threw
AppTick(view, events, fails) ==
  [camera |-> ApplyEvents(view, events), threw |-> fails]

\* mutant of TryBlock: the tick is awaited, so the newest event is appended
\* after the tick has read the batch and before the clear
TryBlockAwaited(b, view, fails) ==
  LET arg == IF b.events = << >> THEN << >>
             ELSE SubSeq(b.events, 1, Len(b.events) - 1)
      out == AppTick(view, arg, fails)
  IN IF out.threw
     THEN [batch |-> b, camera |-> out.camera, text |-> TickErrorText,
           arg |-> arg, cleared |-> FALSE]
     ELSE [batch |-> IF b.null THEN b ELSE SomeBatch(<< >>),
           camera |-> out.camera, text |-> CameraTextOf(out.camera),
           arg |-> arg, cleared |-> ~b.null]

\* mutant of TryBlock: the HUD shows the view read before the tick
TryBlockStaleText(b, view, fails) ==
  LET arg == b.events
      out == AppTick(view, arg, fails)
  IN IF out.threw
     THEN [batch |-> b, camera |-> out.camera, text |-> TickErrorText,
           arg |-> arg, cleared |-> FALSE]
     ELSE [batch |-> IF b.null THEN b ELSE SomeBatch(<< >>),
           camera |-> out.camera, text |-> CameraTextOf(view),
           arg |-> arg, cleared |-> ~b.null]

\* the try/catch of frame, lines 141-154
TryBlock(b, view, fails) ==
  LET arg == b.events
      out == AppTick(view, arg, fails)
  IN IF out.threw
     THEN [batch |-> b, camera |-> out.camera, text |-> TickErrorText,
           arg |-> arg, cleared |-> FALSE]
     ELSE [batch |-> IF b.null THEN b ELSE SomeBatch(<< >>),
           camera |-> out.camera, text |-> CameraTextOf(out.camera),
           arg |-> arg, cleared |-> ~b.null]

\* mutant of FrameCallback: no `if (!running) return`
FrameCallbackNoGuard(h, fails) ==
  /\ h \in rafPending
  /\ LET r == TryBlock(batch, camera, fails)
     IN /\ fails => failures < MaxFailures
        /\ batch' = r.batch
        /\ camera' = r.camera
        /\ cameraText' = r.text
        /\ rafNext' = NextHandle(rafNext)
        /\ rafId' = rafNext'
        /\ rafPending' = (rafPending \ {h}) \cup {rafNext'}
        /\ tickSeq' = (tickSeq + 1) % HandleBound
        /\ failures' = IF fails THEN failures + 1 ELSE failures
        /\ lastFrame' = [kind |-> IF fails THEN "failed" ELSE "ok",
                         arg |-> r.arg]
        /\ sinceClear' = IF r.cleared THEN << >> ELSE sinceClear
        /\ sinceTick' = << >>
        /\ UNCHANGED appended
  /\ UNCHANGED <<gesture, aborted, running, pc, ver>>
  /\ UNCHANGED camOp

\* mutant of FrameCallback: requestAnimationFrame(frame) is inside the try
FrameCallbackRescheduleInTry(h, fails) ==
  /\ h \in rafPending
  /\ IF ~running
     THEN /\ rafPending' = rafPending \ {h}
          /\ lastFrame' = [kind |-> "stopped", arg |-> << >>]
          /\ UNCHANGED <<rafId, rafNext, camera, cameraText, tickSeq, failures,
                         batchState>>
     ELSE LET r == TryBlock(batch, camera, fails)
          IN /\ fails => failures < MaxFailures
             /\ batch' = r.batch
             /\ camera' = r.camera
             /\ cameraText' = r.text
             /\ IF fails
                THEN /\ rafPending' = rafPending \ {h}
                     /\ UNCHANGED <<rafId, rafNext>>
                ELSE /\ rafNext' = NextHandle(rafNext)
                     /\ rafId' = rafNext'
                     /\ rafPending' = (rafPending \ {h}) \cup {rafNext'}
             /\ tickSeq' = (tickSeq + 1) % HandleBound
             /\ failures' = IF fails THEN failures + 1 ELSE failures
             /\ lastFrame' = [kind |-> IF fails THEN "failed" ELSE "ok",
                              arg |-> r.arg]
             /\ sinceClear' = IF r.cleared THEN << >> ELSE sinceClear
             /\ sinceTick' = << >>
             /\ UNCHANGED appended
  /\ UNCHANGED <<gesture, aborted, running, pc, ver>>
  /\ UNCHANGED camOp

\* the browser runs the frame callback registered under handle h
FrameCallback(h, fails) ==
  /\ h \in rafPending
  /\ IF ~running
     THEN /\ rafPending' = rafPending \ {h}
          /\ lastFrame' = [kind |-> "stopped", arg |-> << >>]
          /\ UNCHANGED <<rafId, rafNext, camera, cameraText, tickSeq, failures,
                         batchState>>
     ELSE LET r == TryBlock(batch, camera, fails)
          IN /\ fails => failures < MaxFailures
             /\ batch' = r.batch
             /\ camera' = r.camera
             /\ cameraText' = r.text
             /\ rafNext' = NextHandle(rafNext)
             /\ rafId' = rafNext'
             /\ rafPending' = (rafPending \ {h}) \cup {rafNext'}
             /\ tickSeq' = (tickSeq + 1) % HandleBound
             /\ failures' = IF fails THEN failures + 1 ELSE failures
             /\ lastFrame' = [kind |-> IF fails THEN "failed" ELSE "ok",
                              arg |-> r.arg]
             /\ sinceClear' = IF r.cleared THEN << >> ELSE sinceClear
             /\ sinceTick' = << >>
             /\ UNCHANGED appended
  /\ UNCHANGED <<gesture, aborted, running, pc, ver>>
  /\ UNCHANGED camOp

Frame == \E h \in rafPending, fails \in BOOLEAN : FrameCallback(h, fails)

\* onCleanup, lines 162-168
Cleanup ==
  /\ ~aborted
  /\ running' = FALSE
  /\ rafPending' = IF rafId # 0 THEN rafPending \ {rafId} ELSE rafPending
  /\ aborted' = TRUE
  /\ UNCHANGED <<gesture, rafId, rafNext, pc, ver, tickState, batchState>>
  /\ UNCHANGED camOp

Next ==
  \/ KeyDown
  \/ KeyUp
  \/ PointerDown
  \/ PointerMove
  \/ PointerUp
  \/ PointerCancel
  \/ Wheel
  \/ ImportResolved
  \/ WasmInitResolved
  \/ AppNewResolved
  \/ BootstrapRejected
  \/ Frame
  \/ Cleanup

Spec == Init /\ [][Next]_vars

\* The browser runs every pending frame callback: weak fairness of Frame,
\* WF_vars(Frame), with ENABLED <<Frame>>_vars written out as its value:
\* a frame callback can run exactly when one is pending.
FrameFairness == []<>(rafPending = {}) \/ []<><<Frame>>_vars
FairSpec == Spec /\ FrameFairness

----------------------------------------------------------------------------
(* Properties of the frame loop *)

\* app.tick is invoked in this step
TickStep == tickSeq' # tickSeq
\* app.tick throws in this step
ThrowStep == failures' # failures

IsSuffix(s, t) ==
  /\ Len(s) <= Len(t)
  /\ SubSeq(t, Len(t) - Len(s) + 1, Len(t)) = s

IsPan(ev) == ev.type = "camera_pan_by_screen_delta"
IsZoom(ev) == ev.type = "camera_zoom_at_screen_point"

\* C1: when a tick throws, the batch is still cleared in that same frame:
\* after the failing frame the batch is empty.
C1_FailedTickClearsBatch ==
  [][ThrowStep => batch'.events = << >>]_vars

\* C2: once onCleanup has run, no requestAnimationFrame callback is registered
\* or pending, and none fires.
C2_NoFrameAfterCleanup ==
  aborted => rafPending = {} /\ lastFrame.kind # "stopped"

\* C3: once onCleanup has run, app.tick is never invoked again, the batch is
\* never cleared again and the camera HUD text is never updated again.
C3_StopIsEffective ==
  [][aborted => /\ ~TickStep
                /\ cameraText' = cameraText
                /\ (~batch.null => batch' = batch)]_vars

\* a frame callback fired after onCleanup and returned at `if (!running)`
C3_Witness == aborted /\ lastFrame.kind = "stopped" /\ ~batch.null

\* C4: at every app.tick call the batch's event sequence is exactly the
\* sequence of events the pointermove and wheel handlers appended since the
\* batch was last cleared, in the order the handlers fired, one per firing.
C4_ArrivalOrder ==
  [][TickStep => lastFrame'.arg = sinceClear]_vars

\* a tick received a pan followed by a zoom
C4_Witness ==
  /\ lastFrame.kind = "ok"
  /\ Len(lastFrame.arg) = 2
  /\ IsPan(lastFrame.arg[1])
  /\ IsZoom(lastFrame.arg[2])

\* C5: the drain is exclusive: events leave the batch only in a frame whose
\* tick returned, that tick received exactly the events the clear removes,
\* and the clear removes all of them.
C5_ExclusiveDrain ==
  [][/\ Len(batch'.events) < Len(batch.events)
        => TickStep /\ lastFrame'.kind = "ok"
     /\ TickStep /\ lastFrame'.kind = "ok"
        => lastFrame'.arg = batch.events /\ batch'.events = << >>]_vars

\* a tick received a non-empty batch and the clear emptied it
C5_Witness ==
  /\ lastFrame.kind = "ok"
  /\ Len(lastFrame.arg) >= 1
  /\ batch.events = << >>
  /\ sinceClear = << >>

\* C6: after a tick the batch is empty, and a second tick with no event
\* appended in between receives an empty batch and leaves the camera unchanged.
C6_DrainIdempotence ==
  [][TickStep =>
       /\ batch'.events = << >>
       /\ (lastFrame.kind \in {"ok", "failed"} /\ sinceTick = << >>
             => lastFrame'.arg = << >> /\ camera' = camera)]_vars

\* C7: a tick that throws is caught in that frame, the error is shown as
\* 'tick error: ...', and the frame still schedules its successor: the loop
\* keeps running.
C7_FailureIsolation ==
  [][ThrowStep => /\ cameraText' = TickErrorText
                  /\ running'
                  /\ rafId' # 0
                  /\ rafId' \in rafPending']_vars

\* a tick threw, the HUD shows the error and the next frame is pending
C7_Witness ==
  /\ lastFrame.kind = "failed"
  /\ cameraText = TickErrorText
  /\ rafId \in rafPending

\* C8: after every tick that returns normally the HUD text is the formatted
\* CameraView that this tick returned.
C8_HudShowsTickOutput ==
  [][TickStep /\ ~ThrowStep => cameraText' = CameraTextOf(camera')]_vars

\* a tick returned a view other than the default one and the HUD shows it
C8_Witness ==
  /\ lastFrame.kind = "ok"
  /\ cameraText.kind = "view"
  /\ cameraText # CameraTextOf(DefaultView)
  /\ cameraText = CameraTextOf(camera)

\* C9: the camera changes only at a tick; every event appended since the
\* last tick is in the batch passed to the next tick; and with frame callbacks
\* run fairly, every appended event is passed to a tick unless the component
\* is torn down first.
C9_EventsReachTick ==
  /\ [][(camera' # camera => TickStep)
        /\ (TickStep => IsSuffix(sinceTick, lastFrame'.arg))]_vars
  /\ (sinceTick # << >>) ~> (sinceTick = << >> \/ aborted)

\* events appended after a tick that threw were delivered, with the replayed
\* ones, to the following tick
C9_Witness ==
  /\ failures > 0
  /\ lastFrame.kind = "ok"
  /\ Len(lastFrame.arg) >= 2
  /\ sinceTick = << >>

----------------------------------------------------------------------------
(* Camera operations and the shader's mapping, taken alone *)

MaxCamSteps == 2    \* camera operations applied in a row

PanVals == {<<Zero, Zero>>, <<Int2Num(-3), Rat(1, 2)>>}
ZoomVals == {One, Rat(1, 2), Int2Num(2)}
CamViews == {[pan |-> [x |-> p[1], y |-> p[2]], zoom |-> z] :
               p \in PanVals, z \in ZoomVals}
CamPts == {[x |-> 100, y |-> 100], [x |-> 400, y |-> 300]}
CamMultipliers == {Int2Num(2), Rat(1, 2), Int2Num(3), MathExpWheel(100),
                   MathExpWheel(-100), Zero, Int2Num(-1)}

\* mutant of ScreenOf: the pan is subtracted after the scaling
ScreenOfPanAfterZoom(view, world) ==
  [x |-> Sub(Mul(world.x, view.zoom), view.pan.x),
   y |-> Sub(Mul(world.y, view.zoom), view.pan.y)]

\* vs_main: screen = (world - u_camera.pan) * u_camera.zoom
ScreenOf(view, world) ==
  [x |-> Mul(Sub(world.x, view.pan.x), view.zoom),
   y |-> Mul(Sub(world.y, view.pan.y), view.zoom)]

hostVars == <<spaceDown, isPanning, lastPt, batch, ver, cameraText, rafId,
              running, aborted, pc, rafPending, rafNext, lastFrame, tickSeq,
              sinceClear, sinceTick, appended, failures, capture>>

CamInit ==
  /\ camera \in CamViews
  /\ camOp = [NoCamOp EXCEPT !.before = camera]
  /\ spaceDown = FALSE
  /\ isPanning = FALSE
  /\ lastPt = NullPt
  /\ capture = {}
  /\ batch = NullBatch
  /\ ver = "(loading)"
  /\ cameraText = NoData
  /\ rafId = 0
  /\ running = TRUE
  /\ aborted = FALSE
  /\ pc = "import"
  /\ rafPending = {}
  /\ rafNext = 0
  /\ lastFrame = [kind |-> "none", arg |-> << >>]
  /\ tickSeq = 0
  /\ sinceClear = << >>
  /\ sinceTick = << >>
  /\ appended = 0
  /\ failures = 0

CamPan ==
  /\ camOp.steps < MaxCamSteps
  /\ \E d \in CamPts :
       /\ camera' = panByScreenDelta(camera, d)
       /\ camOp' = [op |-> "pan", before |-> camera, px |-> d,
                    multiplier |-> One, steps |-> camOp.steps + 1]
  /\ UNCHANGED hostVars

CamZoom ==
  /\ camOp.steps < MaxCamSteps
  /\ \E pivot \in CamPts, m \in CamMultipliers :
       /\ camera' = zoomAtScreenPoint(camera, pivot, m)
       /\ camOp' = [op |-> "zoom", before |-> camera, px |-> pivot,
                    multiplier |-> m, steps |-> camOp.steps + 1]
  /\ UNCHANGED hostVars

CamNext ==
  \/ CamPan
  \/ CamZoom

SpecCam == CamInit /\ [][CamNext]_vars

\* C10: for a view with zoom > 0, any pivot_px and any accepted multiplier > 0,
\* after zoomAtScreenPoint(pivot_px, multiplier) the world point
\* pan + pivot_px / zoom is the same as before the call, and under the shader's
\* mapping screen = (world - pan) * zoom the world point that was drawn at
\* pivot_px before the zoom is drawn at pivot_px after it.
C10_PivotInvariance ==
  camOp.op = "zoom" /\ IsPositive(camOp.multiplier) =>
    /\ IsPositive(camera.zoom)
    /\ WorldAt(camera, camOp.px) = WorldAt(camOp.before, camOp.px)
    /\ ScreenOf(camOp.before, WorldAt(camOp.before, camOp.px)) = PointNum(camOp.px)
    /\ ScreenOf(camera, WorldAt(camOp.before, camOp.px)) = PointNum(camOp.px)

\* an accepted zoom by exp(0.15) about an off-origin pivot moved the pan of a
\* view that had already been panned and zoomed
C10_Witness ==
  /\ camOp.op = "zoom"
  /\ camOp.multiplier = MathExpWheel(-100)
  /\ ZoomAccepted(camOp.before, camOp.multiplier)
  /\ camOp.before.zoom # One
  /\ camOp.before.pan # Origin
  /\ camera.zoom # camOp.before.zoom
  /\ camera.pan # camOp.before.pan

\* C11: a zoom whose multiplier is <= 0, or whose resulting zoom would be
\* non-positive or above the maximum, is rejected and leaves pan and zoom as
\* they were; the zoom of every reachable camera state is > 0.
C11_InvalidZoomRejected ==
  /\ IsPositive(camera.zoom)
  /\ camOp.op = "zoom" =>
       LET zoom_new == Mul(camOp.before.zoom, camOp.multiplier)
       IN (\/ ~IsPositive(camOp.multiplier)
           \/ ~IsPositive(zoom_new)
           \/ Approx(zoom_new) > ZoomMax * FixScale) => camera = camOp.before

\* a zoom by 3 of a view already zoomed in to 2 (an earlier accepted zoom, or
\* the initial view) would give 6 > ZoomMax and was rejected
C11_Witness ==
  /\ camOp.op = "zoom"
  /\ camOp.multiplier = Int2Num(3)
  /\ camOp.before.zoom = Int2Num(2)
  /\ camOp.before.pan # Origin
  /\ camera = camOp.before

(* The render pipeline's shader stages, taken alone *)

Two == Int2Num(2)
Corners == {[x |-> Zero, y |-> Zero], [x |-> One, y |-> Zero],
            [x |-> Zero, y |-> One], [x |-> One, y |-> One]}
Canvases == {[x |-> Int2Num(800), y |-> Int2Num(600)],
             [x |-> Int2Num(2), y |-> Int2Num(4)]}
Blue == <<Rat(1, 5), Rat(3, 5), Rat(9, 10), One>>
Red == <<One, Zero, Zero, One>>

\* u_camera.pan and u_camera.zoom: the views of CamViews and those views
\* after one wheel zoom-in about a pivot
ShaderViews ==
  CamViews \cup {zoomAtScreenPoint(v, p, MathExpWheel(-100)) :
                   v \in CamViews, p \in CamPts}

\* instance records (position, size, colour) drawn under a camera and a canvas:
\* a quad from the origin to the canvas centre, a quad covering exactly the
\* visible world rectangle, and a quad unrelated to either
Instances(view, canvas) ==
  {[pos |-> Origin,
    size |-> [x |-> DivMono(canvas.x, Two), y |-> DivMono(canvas.y, Two)],
    color |-> Blue],
   [pos |-> view.pan,
    size |-> [x |-> DivMono(canvas.x, view.zoom),
              y |-> DivMono(canvas.y, view.zoom)],
    color |-> Red],
   [pos |-> [x |-> Int2Num(10), y |-> Int2Num(-20)],
    size |-> [x |-> Int2Num(30), y |-> Rat(5, 2)],
    color |-> Red]}

\* mutant of vs_main: the vertex is passed through, out.pos = (in_pos, 0, 1)
vs_main_passthrough(view, canvas, in_pos, inst_pos, inst_size, inst_color) ==
  [x |-> in_pos.x, y |-> in_pos.y, z |-> Zero, w |-> One]

\* mutant of vs_main: the y axis is not flipped
vs_main_no_flip(view, canvas, in_pos, inst_pos, inst_size, inst_color) ==
  LET world == [x |-> Add(inst_pos.x, Mul(in_pos.x, inst_size.x)),
                y |-> Add(inst_pos.y, Mul(in_pos.y, inst_size.y))]
      screen == ScreenOf(view, world)
  IN [x |-> Sub(Mul(DivMono(screen.x, canvas.x), Two), One),
      y |-> Sub(Mul(DivMono(screen.y, canvas.y), Two), One),
      z |-> Zero, w |-> One]

\* vs_main: out.pos of one vertex of one instance; view and canvas are the
\* fields of u_camera. inst_color is an input that no statement reads.
vs_main(view, canvas, in_pos, inst_pos, inst_size, inst_color) ==
  LET world == [x |-> Add(inst_pos.x, Mul(in_pos.x, inst_size.x)),
                y |-> Add(inst_pos.y, Mul(in_pos.y, inst_size.y))]
      screen == ScreenOf(view, world)
  IN [x |-> Sub(Mul(DivMono(screen.x, canvas.x), Two), One),
      y |-> Sub(One, Mul(DivMono(screen.y, canvas.y), Two)),
      z |-> Zero, w |-> One]

\* fs_main: takes no input and returns one fixed colour
fs_main == <<Rat(1, 5), Rat(3, 5), Rat(9, 10), One>>

NoColor == << >>

\* the uniform and the vertex inputs are bound; no stage has run
ShaderInit ==
  /\ camera \in ShaderViews
  /\ \E canvas \in Canvases, in_pos \in Corners :
       \E inst \in Instances(camera, canvas) :
         camOp = [op |-> "bound", canvas |-> canvas, in_pos |-> in_pos,
                  inst |-> inst, pos |-> [x |-> Zero, y |-> Zero,
                                          z |-> Zero, w |-> Zero],
                  color |-> NoColor]
  /\ spaceDown = FALSE
  /\ isPanning = FALSE
  /\ lastPt = NullPt
  /\ capture = {}
  /\ batch = NullBatch
  /\ ver = "(loading)"
  /\ cameraText = NoData
  /\ rafId = 0
  /\ running = TRUE
  /\ aborted = FALSE
  /\ pc = "import"
  /\ rafPending = {}
  /\ rafNext = 1
  /\ lastFrame = [kind |-> "none", arg |-> << >>]
  /\ tickSeq = 0
  /\ sinceClear = << >>
  /\ sinceTick = << >>
  /\ appended = 0
  /\ failures = 0

VertexStage ==
  /\ camOp.op = "bound"
  /\ camOp' = [camOp EXCEPT
                 !.op = "vertex",
                 !.pos = vs_main(camera, camOp.canvas, camOp.in_pos,
                                 camOp.inst.pos, camOp.inst.size,
                                 camOp.inst.color)]
  /\ UNCHANGED camera
  /\ UNCHANGED hostVars

FragmentStage ==
  /\ camOp.op = "vertex"
  /\ camOp' = [camOp EXCEPT !.op = "fragment", !.color = fs_main]
  /\ UNCHANGED camera
  /\ UNCHANGED hostVars

ShaderNext ==
  \/ VertexStage
  \/ FragmentStage

SpecShader == ShaderInit /\ [][ShaderNext]_vars

\* the world position of the vertex being drawn
VertexWorld ==
  [x |-> Add(camOp.inst.pos.x, Mul(camOp.in_pos.x, camOp.inst.size.x)),
   y |-> Add(camOp.inst.pos.y, Mul(camOp.in_pos.y, camOp.inst.size.y))]

\* C12: with pan = (0,0), zoom = 1 and canvas = (W,H) the vertex shader maps
\* the world point (W/2, H/2) to NDC (0,0).
C12_DefaultViewCentre ==
  (/\ camOp.op \in {"vertex", "fragment"}
   /\ camera = DefaultView
   /\ VertexWorld = [x |-> DivMono(camOp.canvas.x, Two),
                     y |-> DivMono(camOp.canvas.y, Two)])
  => camOp.pos.x = Zero /\ camOp.pos.y = Zero

\* the far corner of the quad from the origin to the centre of the 800 x 600
\* canvas went through the vertex stage under the default view
C12_Witness ==
  /\ camOp.op = "vertex"
  /\ camera = DefaultView
  /\ camOp.canvas = [x |-> Int2Num(800), y |-> Int2Num(600)]
  /\ camOp.in_pos = [x |-> One, y |-> One]
  /\ VertexWorld = [x |-> Int2Num(400), y |-> Int2Num(300)]
  /\ camOp.pos = [x |-> Zero, y |-> Zero, z |-> Zero, w |-> One]

\* the canonical transform of a world point, written as the specification
\* states it: screen = (world - pan) * zoom, ndc.x = 2 * screen.x / width - 1,
\* ndc.y = 1 - 2 * screen.y / height
CanonicalNdc(view, canvas, world) ==
  LET sx == Mul(Sub(world.x, view.pan.x), view.zoom)
      sy == Mul(Sub(world.y, view.pan.y), view.zoom)
  IN [x |-> Sub(DivMono(Add(sx, sx), canvas.x), One),
      y |-> Sub(One, DivMono(Add(sy, sy), canvas.y))]

\* C13: for every instance, corner offset in {0,1} x {0,1}, camera and canvas
\* size the vertex shader outputs the canonical transform of
\* world = position + corner * size; Y is flipped: the world point at pan maps
\* to NDC (-1, 1) and the world point at pan + canvas / zoom maps to NDC (1, -1).
C13_CanonicalTransform ==
  camOp.op \in {"vertex", "fragment"} =>
    LET ndc == CanonicalNdc(camera, camOp.canvas, VertexWorld)
    IN /\ camOp.pos = [x |-> ndc.x, y |-> ndc.y, z |-> Zero, w |-> One]
       /\ VertexWorld = camera.pan =>
            camOp.pos.x = Neg(One) /\ camOp.pos.y = One
       /\ VertexWorld = [x |-> Add(camera.pan.x,
                                   DivMono(camOp.canvas.x, camera.zoom)),
                         y |-> Add(camera.pan.y,
                                   DivMono(camOp.canvas.y, camera.zoom))] =>
            camOp.pos.x = One /\ camOp.pos.y = Neg(One)

\* under a panned view zoomed by the wheel, the bottom-right corner of the quad
\* covering the visible world rectangle went through the vertex stage
C13_Witness ==
  /\ camOp.op = "vertex"
  /\ camera.pan # Origin
  /\ camera \notin CamViews
  /\ camOp.inst.pos = camera.pan
  /\ camOp.in_pos = [x |-> One, y |-> One]
  /\ VertexWorld # camera.pan
  /\ camOp.pos = [x |-> One, y |-> Neg(One), z |-> Zero, w |-> One]

\* C15: the colour the fragment stage outputs for an instance's quad is that
\* instance record's colour (inst_color).
C15_FragmentColourIsInstanceColour ==
  camOp.op = "fragment" => camOp.color = camOp.inst.color

(* The wheel handler over a wider range of deltaY *)

WideDeltas == {-100, -1, 0, 1, 100}

\* one wheel event; camOp remembers the deltaY the handler was called with
WheelWide ==
  /\ \E p \in WheelPts, deltaY \in WideDeltas :
       /\ WheelOn(p, deltaY)
       /\ camOp' = [op |-> "wheel", deltaY |-> deltaY]
  /\ UNCHANGED camera

WheelNext ==
  \/ WheelWide
  \/ ImportResolved
  \/ WasmInitResolved
  \/ AppNewResolved
  \/ BootstrapRejected
  \/ Frame
  \/ Cleanup

SpecWheel == Init /\ [][WheelNext]_vars

\* C14: every zoom event the wheel handler appends carries a
\* zoom_multiplier > 0 for every deltaY: exactly 1.0 when deltaY = 0, greater
\* than 1 when deltaY < 0, less than 1 when deltaY > 0.
C14_WheelMultiplier ==
  [][appended' # appended =>
       LET ev == batch'.events[Len(batch'.events)]
           m == ev.zoom_multiplier
           deltaY == camOp'.deltaY
       IN /\ IsZoom(ev)
          /\ IsPositive(m)
          /\ Approx(m) > 0
          /\ deltaY = 0 => m = One /\ Approx(m) = FixScale
          /\ deltaY < 0 => m # One /\ Approx(m) > FixScale
          /\ deltaY > 0 => m # One /\ Approx(m) < FixScale]_vars

\* a wheel event with deltaY = 0 appended a zoom event of multiplier 1 behind
\* a zoom event of a multiplier other than 1
C14_Witness ==
  /\ camOp.op = "wheel"
  /\ camOp.deltaY = 0
  /\ ~batch.null
  /\ Len(batch.events) = 2
  /\ batch.events[1].zoom_multiplier # One
  /\ batch.events[2].zoom_multiplier = One

(* The pan gesture *)

\* History of the drag in progress, kept in camOp: a drag begins with a
\* primary-button pointerdown while Space is held and lasts until the next
\* pointerup, pointercancel or Space keyup. p0 is where it began, sum the sum
\* of the delta_px appended since, skipped whether a pointermove to another
\* point arrived while the batch did not exist.
NoDrag == [op |-> "nodrag", p0 |-> [x |-> 0, y |-> 0],
           sum |-> [x |-> 0, y |-> 0], skipped |-> FALSE]
DragFrom(p) == [op |-> "drag", p0 |-> p, sum |-> [x |-> 0, y |-> 0],
                skipped |-> FALSE]

KeyUpTracked ==
  \E code \in Codes :
    /\ KeyUpOn(code)
    /\ camOp' = IF code = "Space" THEN NoDrag ELSE camOp
    /\ UNCHANGED camera

PointerDownTracked ==
  \E button \in Buttons, p \in ClientPts, pointerId \in PointerIds :
    /\ PointerDownOn(button, p, pointerId)
    /\ camOp' = IF button = 0 /\ spaceDown THEN DragFrom(p) ELSE camOp
    /\ UNCHANGED camera

PointerMoveTracked ==
  \E p \in ClientPts :
    /\ PointerMoveOn(p)
    /\ camOp' =
         IF appended' # appended
         THEN LET ev == batch'.events[Len(batch'.events)]
              IN [camOp EXCEPT !.sum = [x |-> @.x + ev.delta_px.x,
                                        y |-> @.y + ev.delta_px.y]]
         ELSE IF camOp.op = "drag" /\ batch.null /\ ~lastPt.null
                 /\ <<p.x, p.y>> # <<lastPt.x, lastPt.y>>
              THEN [camOp EXCEPT !.skipped = TRUE]
              ELSE camOp
    /\ UNCHANGED camera

PointerUpTracked ==
  \E pointerId \in PointerIds :
    /\ PointerUpOn(pointerId)
    /\ camOp' = NoDrag
    /\ UNCHANGED camera

PointerCancelTracked ==
  \E pointerId \in PointerIds :
    /\ PointerCancelOn(pointerId)
    /\ camOp' = NoDrag
    /\ UNCHANGED camera

GestureNext ==
  \/ KeyDown
  \/ KeyUpTracked
  \/ PointerDownTracked
  \/ PointerMoveTracked
  \/ PointerUpTracked
  \/ PointerCancelTracked
  \/ ImportResolved
  \/ WasmInitResolved
  \/ AppNewResolved
  \/ BootstrapRejected
  \/ Frame
  \/ Cleanup

SpecGesture == Init /\ [][GestureNext]_vars

\* C16: isPanning is true exactly when lastPt is non-null, and isPanning
\* implies spaceDown; a pan event is appended only while Space is held and a
\* primary-button drag that began with Space held is in progress.
C16_PanGestureInvariant ==
  /\ [](/\ isPanning <=> ~lastPt.null
        /\ isPanning => spaceDown)
  /\ [][(/\ appended' # appended
         /\ IsPan(batch'.events[Len(batch'.events)]))
        => spaceDown /\ isPanning /\ camOp.op = "drag"]_vars

\* a pan event sits in the batch while the drag that appended it goes on
C16_Witness ==
  /\ isPanning
  /\ spaceDown
  /\ camOp.op = "drag"
  /\ ~batch.null
  /\ Len(batch.events) >= 1
  /\ IsPan(batch.events[Len(batch.events)])

\* C17: at any moment of a drag begun by a pointerdown at p0, the sum of the
\* delta_px of the pan events appended since equals lastPt - p0, movement
\* made while the batch was null included (it is carried into the first
\* event appended once the batch exists).
C17_PanDeltasTelescope ==
  camOp.op = "drag" =>
    /\ ~lastPt.null
    /\ camOp.sum.x = lastPt.x - camOp.p0.x
    /\ camOp.sum.y = lastPt.y - camOp.p0.y

\* the drag began before the batch existed, a pointermove was skipped, and
\* pan events appended afterwards add up to a displacement other than zero
C17_Witness ==
  /\ camOp.op = "drag"
  /\ camOp.skipped
  /\ camOp.sum # [x |-> 0, y |-> 0]
  /\ ~batch.null
  /\ Len(batch.events) >= 1

\* C19: whenever a pan gesture ends (pointerup, pointercancel or Space keyup)
\* the pointer capture is released: the canvas holds a pointer capture only
\* while isPanning is true.
C19_CaptureOnlyWhilePanning ==
  capture # {} => isPanning

(* The frame loop's scheduling *)

\* C18: at most one frame callback is pending at any time; from the end of
\* the bootstrap until cleanup exactly one requestAnimationFrame registration
\* is outstanding between frames, also after a frame whose tick failed.
C18_OneFramePending ==
  /\ Cardinality(rafPending) <= 1
  /\ pc = "done" /\ running =>
       /\ rafId # 0
       /\ rafPending = {rafId}

\* after a frame whose tick threw, the loop is alive with one callback pending
C18_Witness ==
  /\ pc = "done"
  /\ running
  /\ lastFrame.kind = "failed"
  /\ failures >= 1
  /\ Cardinality(rafPending) = 1

====
